---------------------------- MODULE Spec2Model ----------------------------
(***************************************************************************)
(* Model of tsd-publicbucketscanner (src/main.py).                         *)
(*                                                                         *)
(* Python strings are modelled as sequences of one-character strings, so   *)
(* that concatenation, str.replace and the substring test `in` are         *)
(* computed character by character as the interpreter computes them.       *)
(*                                                                         *)
(* Three specifications share the variables:                               *)
(*   Spec          main() / scan_domain(): validation, the probe loop, the *)
(*                 printed summary.                                        *)
(*   SpecClassify  check_bucket_access() applied to one fetch outcome.     *)
(*   SpecGenerate  generate_bucket_names() and the URL expansion of the    *)
(*                 loop of scan_domain(), applied to one domain string.    *)
(***************************************************************************)
EXTENDS Integers, Sequences, FiniteSets, TLC

VARIABLES
    domain,             \* args.domain, the string handed to scan_domain
    verbose,            \* args.verbose
    pc,                 \* position of the running function
    bucket_names,       \* scan_domain: bucket_names
    i,                  \* index in bucket_names of the outer loop
    j,                  \* index in bucket_urls of the inner loop
    fetched,            \* the URLs handed to requests.get, in call order
    inflight,           \* requests.get calls that have not returned yet
    accessible_buckets, \* scan_domain: accessible_buckets
    probe,              \* the last check_bucket_access call: url, fetch outcome, result
    log,                \* records scan_domain itself handed to logging and that were emitted
    stdout,             \* the lines printed
    targets,            \* SpecGenerate: every bucket_url of the loop, in loop order
    verdicts,           \* the values check_bucket_access returned, in call order
    valid               \* what is_valid_domain returned: "yes", "no", or "unknown" before the call

vars == <<domain, verbose, pc, bucket_names, i, j, fetched, inflight,
          accessible_buckets, probe, log, stdout, targets, verdicts, valid>>

---------------------------------------------------------------------------
(* Bounds of the model *)

\* longest enumerated domain string of SpecGenerate
MaxDomainLen == 6
\* most fragments concatenated into a response body of SpecClassify
MaxFrags == 2
\* most probes of one scan that the environment answers with an accessible body
MaxAccessible == 2

---------------------------------------------------------------------------
(* Character classes of the regular expression (main.py:17) *)

Lower == {"a", "b", "c", "d", "e", "f", "g", "h", "i", "j", "k", "l", "m",
          "n", "o", "p", "q", "r", "s", "t", "u", "v", "w", "x", "y", "z"}
Upper == {"A", "B", "C", "D", "E", "F", "G", "H", "I", "J", "K", "L", "M",
          "N", "O", "P", "Q", "R", "S", "T", "U", "V", "W", "X", "Y", "Z"}
Digit == {"0", "1", "2", "3", "4", "5", "6", "7", "8", "9"}
Alpha == Lower \cup Upper
AlNum == Alpha \cup Digit
AlNumHyphen == AlNum \cup {"-"}

\* [a-zA-Z0-9-]{1,61}
LabelMidMin == 1
LabelMidMax == 61
\* [a-zA-Z]{2,}
TldMin == 2

\* ^[a-zA-Z0-9][a-zA-Z0-9-]{1,61}[a-zA-Z0-9]   matched against the whole of s
FirstLabel(s) ==
    /\ Len(s) >= LabelMidMin + 2
    /\ Len(s) <= LabelMidMax + 2
    /\ s[1] \in AlNum
    /\ s[Len(s)] \in AlNum
    /\ \A k \in 2..(Len(s) - 1) : s[k] \in AlNumHyphen

\* (?:\.[a-zA-Z]{2,})*   a mutant of TldGroups: the group may be absent
TldGroupsOptional(s) ==
    /\ \A k \in 1..Len(s) : s[k] \in Alpha \cup {"."}
    /\ Len(s) > 0 => s[1] = "."
    /\ \A k \in 1..Len(s) :
          s[k] = "." => /\ k + TldMin <= Len(s)
                        /\ \A d \in 1..TldMin : s[k + d] \in Alpha

\* (?:\.[a-zA-Z]{2,})+   matched against the whole of s
TldGroups(s) ==
    /\ Len(s) >= 1 + TldMin
    /\ s[1] = "."
    /\ \A k \in 1..Len(s) : s[k] \in Alpha \cup {"."}
    /\ \A k \in 1..Len(s) :
          s[k] = "." => /\ k + TldMin <= Len(s)
                        /\ \A d \in 1..TldMin : s[k + d] \in Alpha

\* the pattern between ^ and $ matched against the whole of s
PatternMatches(s) ==
    \E k \in 1..Len(s) :
        /\ FirstLabel(SubSeq(s, 1, k))
        /\ TldGroups(SubSeq(s, k + 1, Len(s)))

\* re.match(pattern, domain): without re.MULTILINE, $ matches at the end of
\* the string and also just before a newline that ends the string
re_match(s) ==
    \/ PatternMatches(s)
    \/ /\ Len(s) > 0
       /\ s[Len(s)] = "\n"
       /\ PatternMatches(SubSeq(s, 1, Len(s) - 1))

\* is_valid_domain; resolves is the outcome of socket.gethostbyname(domain):
\* TRUE when it returns, FALSE when it raises socket.gaierror.  The DNS
\* lookup is made only when the pattern matches.
is_valid_domain(s, resolves) ==
    IF ~re_match(s) THEN FALSE ELSE resolves

---------------------------------------------------------------------------
(* String literals of main.py *)

ListBucketResult == <<"L", "i", "s", "t", "B", "u", "c", "k", "e", "t", "R", "e", "s", "u", "l", "t">>
Contents == <<"C", "o", "n", "t", "e", "n", "t", "s">>
Name == <<"N", "a", "m", "e">>
EnumerationResults == <<"E", "n", "u", "m", "e", "r", "a", "t", "i", "o", "n", "R", "e", "s", "u", "l", "t", "s">>
AccessDenied == <<"A", "c", "c", "e", "s", "s", "D", "e", "n", "i", "e", "d">>
NoSuchBucket == <<"N", "o", "S", "u", "c", "h", "B", "u", "c", "k", "e", "t">>
BucketSuffix == <<"-", "b", "u", "c", "k", "e", "t">>
BucketPrefix == <<"b", "u", "c", "k", "e", "t", "-">>
PublicSuffix == <<"-", "p", "u", "b", "l", "i", "c">>
PublicPrefix == <<"p", "u", "b", "l", "i", "c", "-">>
S3Prefix == <<"h", "t", "t", "p", "s", ":", "/", "/">>
S3Suffix == <<".", "s", "3", ".", "a", "m", "a", "z", "o", "n", "a", "w", "s", ".", "c", "o", "m">>
GcsPrefix == <<"h", "t", "t", "p", "s", ":", "/", "/", "s", "t", "o", "r", "a", "g", "e", ".", "g", "o", "o", "g", "l", "e", "a", "p", "i", "s", ".", "c", "o", "m", "/">>
AzurePrefix == <<"h", "t", "t", "p", "s", ":", "/", "/">>
AzureSuffix == <<".", "b", "l", "o", "b", ".", "c", "o", "r", "e", ".", "w", "i", "n", "d", "o", "w", "s", ".", "n", "e", "t">>

---------------------------------------------------------------------------
(* generate_bucket_names and the bucket_urls of scan_domain *)

\* domain.replace('.', '-')
ReplaceDots(s) == [k \in 1..Len(s) |-> IF s[k] = "." THEN "-" ELSE s[k]]

\* a mutant of generate_bucket_names: the domain itself comes first
generate_bucket_names_identity_first(d) ==
    << d,
       d \o BucketSuffix,
       BucketPrefix \o d,
       ReplaceDots(d),
       d \o PublicSuffix,
       PublicPrefix \o d >>

\* generate_bucket_names(domain): the list literal, in its order
generate_bucket_names(d) ==
    << d \o BucketSuffix,
       BucketPrefix \o d,
       d,
       ReplaceDots(d),
       d \o PublicSuffix,
       PublicPrefix \o d >>

\* the list bucket_urls built for one bucket_name
bucket_urls(bucket_name) ==
    << S3Prefix \o bucket_name \o S3Suffix,
       GcsPrefix \o bucket_name,
       AzurePrefix \o bucket_name \o AzureSuffix >>

---------------------------------------------------------------------------
(* check_bucket_access *)

\* needle in haystack
Contains(haystack, needle) ==
    \E k \in 0..(Len(haystack) - Len(needle)) :
        SubSeq(haystack, k + 1, k + Len(needle)) = needle

\* response.text[:100]
DiagPrefixLen == 100
Prefix100(text) ==
    SubSeq(text, 1, IF Len(text) < DiagPrefixLen THEN Len(text) ELSE DiagPrefixLen)

\* numeric levels of the logging module
Severity == [NOTSET |-> 0, DEBUG |-> 10, INFO |-> 20, ERROR |-> 40]

\* the level of the root logger: basicConfig(level=INFO), DEBUG with --verbose
RootLevel(v) == IF v THEN "DEBUG" ELSE "INFO"

\* whether the root logger emits a record of this level
Emitted(level, v) == Severity[level] >= Severity[RootLevel(v)]

NoRecord == [level |-> "NOTSET", msg |-> "", url |-> <<>>, ctx |-> <<>>]

\* response.raise_for_status(): HTTPError for 4xx and 5xx
raise_for_status(status) == 400 <= status /\ status < 600

\* a mutant of RequestFails: raise_for_status() is not called
RequestFailsNoStatusCheck(fetch) == fetch.kind = "raised"

\* requests.get raised a RequestException, or raise_for_status did
RequestFails(fetch) ==
    \/ fetch.kind = "raised"
    \/ raise_for_status(fetch.status)

\* a failed fetch: the except branch
OnRequestException(bucket_url) ==
    [ret |-> FALSE, raised |-> FALSE,
     rec |-> [level |-> "ERROR", msg |-> "Error checking bucket",
              url |-> bucket_url, ctx |-> <<>>]]

\* a mutant of OnNoSignature: the fall-through logs as the denial branch does
OnNoSignatureAsDenial(bucket_url, text) ==
    [ret |-> FALSE, raised |-> FALSE,
     rec |-> [level |-> "DEBUG",
              msg |-> "is likely not publicly accessible or doesn't exist",
              url |-> bucket_url, ctx |-> Prefix100(text)]]

\* no signature matched: the fall-through at the end of the try block
OnNoSignature(bucket_url, text) ==
    [ret |-> FALSE, raised |-> FALSE,
     rec |-> [level |-> "DEBUG",
              msg |-> "does not appear to be publicly accessible",
              url |-> bucket_url, ctx |-> Prefix100(text)]]

\* a mutant of OnDenialMarker: the denial is logged at INFO
OnDenialMarkerWarning(bucket_url, text) ==
    [ret |-> FALSE, raised |-> FALSE,
     rec |-> [level |-> "INFO",
              msg |-> "is likely not publicly accessible or doesn't exist",
              url |-> bucket_url, ctx |-> Prefix100(text)]]

\* "AccessDenied" in response.text or "NoSuchBucket" in response.text
OnDenialMarker(bucket_url, text) ==
    [ret |-> FALSE, raised |-> FALSE,
     rec |-> [level |-> "DEBUG",
              msg |-> "is likely not publicly accessible or doesn't exist",
              url |-> bucket_url, ctx |-> Prefix100(text)]]

\* a mutant of ClassifyText: the denial markers are tested first
ClassifyTextDenialFirst(bucket_url, text) ==
    IF Contains(text, AccessDenied) \/ Contains(text, NoSuchBucket)
      THEN OnDenialMarker(bucket_url, text)
    ELSE IF Contains(text, ListBucketResult)
      THEN [ret |-> TRUE, raised |-> FALSE,
            rec |-> [level |-> "INFO", msg |-> "is publicly listable",
                     url |-> bucket_url, ctx |-> <<>>]]
    ELSE IF Contains(text, Contents) /\ Contains(text, Name)
      THEN [ret |-> TRUE, raised |-> FALSE,
            rec |-> [level |-> "INFO", msg |-> "appears to be publicly readable (GCS)",
                     url |-> bucket_url, ctx |-> <<>>]]
    ELSE IF Contains(text, EnumerationResults)
      THEN [ret |-> TRUE, raised |-> FALSE,
            rec |-> [level |-> "INFO", msg |-> "appears to be publicly listable (Azure)",
                     url |-> bucket_url, ctx |-> <<>>]]
    ELSE OnNoSignature(bucket_url, text)

\* the body of the try block after raise_for_status()
ClassifyText(bucket_url, text) ==
    IF Contains(text, ListBucketResult)
      THEN [ret |-> TRUE, raised |-> FALSE,
            rec |-> [level |-> "INFO", msg |-> "is publicly listable",
                     url |-> bucket_url, ctx |-> <<>>]]
    ELSE IF Contains(text, Contents) /\ Contains(text, Name)
      THEN [ret |-> TRUE, raised |-> FALSE,
            rec |-> [level |-> "INFO", msg |-> "appears to be publicly readable (GCS)",
                     url |-> bucket_url, ctx |-> <<>>]]
    ELSE IF Contains(text, EnumerationResults)
      THEN [ret |-> TRUE, raised |-> FALSE,
            rec |-> [level |-> "INFO", msg |-> "appears to be publicly listable (Azure)",
                     url |-> bucket_url, ctx |-> <<>>]]
    ELSE IF Contains(text, AccessDenied) \/ Contains(text, NoSuchBucket)
      THEN OnDenialMarker(bucket_url, text)
    ELSE OnNoSignature(bucket_url, text)

\* check_bucket_access(bucket_url), given what requests.get(bucket_url) did:
\* the value returned, whether an exception left the function instead, and
\* the record handed to logging
check_bucket_access(bucket_url, fetch) ==
    IF RequestFails(fetch)
      THEN OnRequestException(bucket_url)
      ELSE ClassifyText(bucket_url, fetch.text)

---------------------------------------------------------------------------
(* Inputs *)

ExampleCom == <<"e", "x", "a", "m", "p", "l", "e", ".", "c", "o", "m">>
NotADomain == <<"n", "o", "t", " ", "a", " ", "d", "o", "m", "a", "i", "n">>
ShortDomain == <<"a", "-", "1", ".", "c", "o">>
BucketWord == <<"b", "u", "c", "k", "e", "t">>
NewlineDomain == <<"a", "b", "c", ".", "c", "o", "\n">>

\* every string of at most n characters of A
Strings(A, n) == UNION {[1..k -> A] : k \in 0..n}

DomainAlphabet == {"a", "1", "-", "."}

\* the domain strings of SpecGenerate
GenDomains ==
    Strings(DomainAlphabet, MaxDomainLen)
        \cup {ExampleCom, NotADomain, ShortDomain, BucketWord, NewlineDomain}

\* the domain strings of Spec
ScanDomains == {ExampleCom, NotADomain, ShortDomain}

\* pieces of response bodies: the six markers, a marker split in two, filler
Fragments ==
    {ListBucketResult, Contents, Name, EnumerationResults, AccessDenied,
     NoSuchBucket, <<"C", "o", "n", "t", "e", "n", "t">>, <<"s">>, <<"<">>}

RECURSIVE Concats(_)
Concats(n) ==
    IF n = 0 THEN {<<>>}
    ELSE LET shorter == Concats(n - 1)
         IN  shorter \cup {b \o f : b \in shorter, f \in Fragments}

Bodies == Concats(MaxFrags)

StatusCodes == {200, 399, 400, 404, 599, 600}

Raised == [kind |-> "raised", status |-> 0, text |-> <<>>]
Response(status, text) == [kind |-> "response", status |-> status, text |-> text]

\* what requests.get can do in SpecClassify
Fetches == {Raised} \cup {Response(s, b) : s \in StatusCodes, b \in Bodies}

ListingBody == <<"<">> \o ListBucketResult

\* what requests.get can do in Spec
ScanFetches ==
    {Raised,
     Response(404, <<>>),
     Response(200, <<>>),
     Response(200, ListingBody),
     Response(200, AccessDenied),
     Response(404, ListingBody)}

NoProbe == [url |-> <<>>, fetch |-> [kind |-> "none", status |-> 0, text |-> <<>>],
            ret |-> FALSE, rec |-> NoRecord]

---------------------------------------------------------------------------
(* scan_domain *)

\* a mutant of Rejects: the early return is never taken
RejectsNever(ok) == FALSE

\* if not is_valid_domain(domain): ... return
Rejects(ok) == ~ok

InvalidDomainRecord(d) ==
    [level |-> "ERROR", msg |-> "Invalid domain", url |-> d, ctx |-> <<>>]

\* the log after a logging call of scan_domain
Logged(records, rec) ==
    IF Emitted(rec.level, verbose) THEN Append(records, rec) ELSE records

\* a mutant of Collect: every probed URL is collected
CollectAll(acc, ret, bucket_url) == Append(acc, bucket_url)

\* if check_bucket_access(bucket_url): accessible_buckets.append(bucket_url)
Collect(acc, ret, bucket_url) ==
    IF ret THEN Append(acc, bucket_url) ELSE acc

\* a mutant of AfterProbe: the loops are left at the first accessible bucket
AfterProbeStopAtHit(ret) ==
    IF ret THEN [i |-> i, j |-> j, pc |-> "report"]
    ELSE IF j < Len(bucket_urls(bucket_names[i]))
      THEN [i |-> i, j |-> j + 1, pc |-> "probe"]
    ELSE IF i < Len(bucket_names)
      THEN [i |-> i + 1, j |-> 1, pc |-> "probe"]
    ELSE [i |-> i, j |-> j, pc |-> "report"]

\* where the two for loops stand after one inner iteration
AfterProbe(ret) ==
    IF j < Len(bucket_urls(bucket_names[i]))
      THEN [i |-> i, j |-> j + 1, pc |-> "probe"]
    ELSE IF i < Len(bucket_names)
      THEN [i |-> i + 1, j |-> 1, pc |-> "probe"]
    ELSE [i |-> i, j |-> j, pc |-> "report"]

\* the lines printed at the end of scan_domain
SummaryLines(d, acc) ==
    IF acc # <<>>
      THEN <<[tmpl |-> "Publicly accessible buckets found for domain", arg |-> d]>>
           \o [k \in 1..Len(acc) |-> [tmpl |-> "-", arg |-> acc[k]]]
      ELSE <<[tmpl |-> "No publicly accessible buckets found for domain", arg |-> d]>>

\* main(): the arguments are parsed, the log level set, scan_domain not yet entered
Init ==
    /\ domain \in ScanDomains
    /\ verbose \in BOOLEAN
    /\ pc = "main"
    /\ bucket_names = <<>>
    /\ i = 0
    /\ j = 0
    /\ fetched = <<>>
    /\ inflight = 0
    /\ accessible_buckets = <<>>
    /\ probe = NoProbe
    /\ log = <<>>
    /\ stdout = <<>>
    /\ targets = <<>>
    /\ verdicts = <<>>
    /\ valid = "unknown"

\* scan_domain up to the first requests.get: validation, then either the
\* error and the return, or the bucket names and the empty result list
ScanEnter ==
    /\ pc = "main"
    /\ \E resolves \in BOOLEAN :
         LET ok == is_valid_domain(domain, resolves)
         IN  /\ valid' = IF ok THEN "yes" ELSE "no"
             /\ IF Rejects(ok)
                  THEN /\ log' = Logged(log, InvalidDomainRecord(domain))
                       /\ pc' = "done"
                       /\ UNCHANGED <<bucket_names, i, j>>
                  ELSE /\ bucket_names' = generate_bucket_names(domain)
                       /\ i' = 1
                       /\ j' = 1
                       /\ pc' = "probe"
                       /\ UNCHANGED log
    /\ UNCHANGED <<domain, verbose, fetched, inflight, accessible_buckets,
                   probe, stdout, targets, verdicts>>

\* check_bucket_access calls requests.get(bucket_url) and blocks
FetchSend ==
    /\ pc = "probe"
    /\ fetched' = Append(fetched, bucket_urls(bucket_names[i])[j])
    /\ inflight' = inflight + 1
    /\ pc' = "wait"
    /\ UNCHANGED <<domain, verbose, bucket_names, i, j, accessible_buckets,
                   probe, log, stdout, targets, verdicts, valid>>

\* requests.get returns or raises; check_bucket_access classifies and returns;
\* the loop body appends and the loops advance.  An exception that left
\* check_bucket_access would leave scan_domain and main as well.
FetchReturn ==
    /\ pc = "wait"
    /\ \E fetch \in ScanFetches :
         LET bucket_url == bucket_urls(bucket_names[i])[j]
             result == check_bucket_access(bucket_url, fetch)
             after == AfterProbe(result.ret)
         IN  /\ result.ret => Len(accessible_buckets) < MaxAccessible
             /\ probe' = [url |-> bucket_url, fetch |-> fetch,
                          ret |-> result.ret, rec |-> result.rec]
             /\ IF result.raised
                  THEN /\ pc' = "crashed"
                       /\ UNCHANGED <<accessible_buckets, verdicts, i, j>>
                  ELSE /\ verdicts' = Append(verdicts, result.ret)
                       /\ accessible_buckets' =
                             Collect(accessible_buckets, result.ret, bucket_url)
                       /\ i' = after.i
                       /\ j' = after.j
                       /\ pc' = after.pc
    /\ inflight' = inflight - 1
    /\ UNCHANGED <<domain, verbose, bucket_names, fetched, log, stdout,
                   targets, valid>>

\* the summary printed after the loops
Report ==
    /\ pc = "report"
    /\ stdout' = stdout \o SummaryLines(domain, accessible_buckets)
    /\ pc' = "done"
    /\ UNCHANGED <<domain, verbose, bucket_names, i, j, fetched, inflight,
                   accessible_buckets, probe, log, targets, verdicts, valid>>

Next == ScanEnter \/ FetchSend \/ FetchReturn \/ Report

Spec == Init /\ [][Next]_vars

---------------------------------------------------------------------------
(* check_bucket_access on one fetch outcome *)

ClassifyUrls == {bucket_urls(ExampleCom \o BucketSuffix)[1]}

InitClassify ==
    /\ domain = ExampleCom
    /\ verbose \in BOOLEAN
    /\ pc = "classify"
    /\ bucket_names = <<>>
    /\ i = 0
    /\ j = 0
    /\ fetched = <<>>
    /\ inflight = 0
    /\ accessible_buckets = <<>>
    /\ \E u \in ClassifyUrls, f \in Fetches :
         probe = [url |-> u, fetch |-> f, ret |-> FALSE, rec |-> NoRecord]
    /\ log = <<>>
    /\ stdout = <<>>
    /\ targets = <<>>
    /\ verdicts = <<>>
    /\ valid = "yes"

\* one call of check_bucket_access; log receives the record if it is emitted
Classify ==
    /\ pc = "classify"
    /\ LET result == check_bucket_access(probe.url, probe.fetch)
       IN  /\ probe' = [probe EXCEPT !.ret = result.ret, !.rec = result.rec]
           /\ log' = Logged(log, result.rec)
           /\ verdicts' = IF result.raised THEN verdicts ELSE <<result.ret>>
           /\ pc' = IF result.raised THEN "crashed" ELSE "classified"
    /\ UNCHANGED <<domain, verbose, bucket_names, i, j, fetched, inflight,
                   accessible_buckets, stdout, targets, valid>>

NextClassify == Classify

SpecClassify == InitClassify /\ [][NextClassify]_vars

---------------------------------------------------------------------------
(* generate_bucket_names and the URL expansion on one domain string *)

\* a mutant of ExpandAll: provider-major order
ExpandAllProviderMajor(names) ==
    [k \in 1..(Len(bucket_urls(<<>>)) * Len(names)) |->
        bucket_urls(names[((k - 1) % Len(names)) + 1])[((k - 1) \div Len(names)) + 1]]

\* the bucket_url values of the two nested for loops, in iteration order
RECURSIVE ExpandAll(_)
ExpandAll(names) ==
    IF names = <<>> THEN <<>>
    ELSE bucket_urls(Head(names)) \o ExpandAll(Tail(names))

InitGenerate ==
    /\ domain \in GenDomains
    /\ verbose = FALSE
    /\ pc = "generate"
    /\ bucket_names = <<>>
    /\ i = 0
    /\ j = 0
    /\ fetched = <<>>
    /\ inflight = 0
    /\ accessible_buckets = <<>>
    /\ probe = NoProbe
    /\ log = <<>>
    /\ stdout = <<>>
    /\ targets = <<>>
    /\ verdicts = <<>>
    /\ valid = "unknown"

\* bucket_names = generate_bucket_names(domain)
Generate ==
    /\ pc = "generate"
    /\ bucket_names' = generate_bucket_names(domain)
    /\ pc' = "expand"
    /\ UNCHANGED <<domain, verbose, i, j, fetched, inflight, accessible_buckets,
                   probe, log, stdout, targets, verdicts, valid>>

\* the for loops over bucket_names and bucket_urls
Expand ==
    /\ pc = "expand"
    /\ targets' = ExpandAll(bucket_names)
    /\ pc' = "expanded"
    /\ UNCHANGED <<domain, verbose, bucket_names, i, j, fetched, inflight,
                   accessible_buckets, probe, log, stdout, verdicts, valid>>

NextGenerate == Generate \/ Expand

SpecGenerate == InitGenerate /\ [][NextGenerate]_vars

---------------------------------------------------------------------------
(* Vocabulary of the properties *)

\* requests.get returned a response whose status raise_for_status accepts
FetchSucceeded(fetch) ==
    fetch.kind = "response" /\ ~(fetch.status \in 400..599)

\* requests.get raised, or the response carries a 4xx or 5xx status
FetchFailed(fetch) ==
    fetch.kind = "raised" \/ (fetch.kind = "response" /\ fetch.status \in 400..599)

HasAccessibleSignature(text) ==
    \/ Contains(text, ListBucketResult)
    \/ Contains(text, Contents) /\ Contains(text, Name)
    \/ Contains(text, EnumerationResults)

HasDenialMarker(text) ==
    Contains(text, AccessDenied) \/ Contains(text, NoSuchBucket)

\* a fetched response that matches no signature at all
NoSignatureFetch(fetch) ==
    /\ FetchSucceeded(fetch)
    /\ ~HasAccessibleSignature(fetch.text)
    /\ ~HasDenialMarker(fetch.text)

\* a fetched response that is an explicit denial
ExplicitDenialFetch(fetch) ==
    /\ FetchSucceeded(fetch)
    /\ ~HasAccessibleSignature(fetch.text)
    /\ HasDenialMarker(fetch.text)

NoDuplicates(seq) ==
    \A a, b \in 1..Len(seq) : a # b => seq[a] # seq[b]

\* the elements of urls at the positions where flags is TRUE, in order
RECURSIVE Selected(_, _)
Selected(urls, flags) ==
    IF urls = <<>> \/ flags = <<>> THEN <<>>
    ELSE (IF Head(flags) THEN <<Head(urls)>> ELSE <<>>)
         \o Selected(Tail(urls), Tail(flags))

\* the arguments of the "- url" lines of the output, in order
RECURSIVE ListedUrls(_)
ListedUrls(lines) ==
    IF lines = <<>> THEN <<>>
    ELSE (IF Head(lines).tmpl = "-" THEN <<Head(lines).arg>> ELSE <<>>)
         \o ListedUrls(Tail(lines))

NoneFoundPrinted ==
    \E k \in 1..Len(stdout) :
        stdout[k].tmpl = "No publicly accessible buckets found for domain"

\* the records check_bucket_access hands to logging for the explicit denials,
\* for the failed fetches and for the accessible responses among Fetches
ExplicitDenialRecords ==
    {check_bucket_access(<<>>, d).rec : d \in {f \in Fetches : ExplicitDenialFetch(f)}}
FailedFetchRecords ==
    {check_bucket_access(<<>>, d).rec : d \in {f \in Fetches : FetchFailed(f)}}
AccessibleRecords ==
    {check_bucket_access(<<>>, d).rec :
        d \in {f \in Fetches : FetchSucceeded(f) /\ HasAccessibleSignature(f.text)}}

ExampleBucketS3Url == <<"h", "t", "t", "p", "s", ":", "/", "/", "e", "x", "a", "m", "p", "l", "e", ".", "c", "o", "m", "-", "b", "u", "c", "k", "e", "t", ".", "s", "3", ".", "a", "m", "a", "z", "o", "n", "a", "w", "s", ".", "c", "o", "m">>
ExampleBucketName == <<"e", "x", "a", "m", "p", "l", "e", ".", "c", "o", "m", "-", "b", "u", "c", "k", "e", "t">>
ExampleHyphenated == <<"e", "x", "a", "m", "p", "l", "e", "-", "c", "o", "m">>

---------------------------------------------------------------------------
(* Properties *)

\* C1: a fetched response whose body holds an accessible signature
\* (ListBucketResult, or Contents and Name, or EnumerationResults) is
\* classified accessible (check_bucket_access returns True), also when the
\* body holds AccessDenied or NoSuchBucket as well.
C1_PriorityLaw ==
    (/\ pc = "classified"
     /\ FetchSucceeded(probe.fetch)
     /\ HasAccessibleSignature(probe.fetch.text))
        => probe.ret = TRUE

\* C1 witness: a body with both ListBucketResult and AccessDenied was
\* classified accessible.
C1_Witness ==
    /\ pc = "classified"
    /\ probe.fetch.kind = "response"
    /\ probe.fetch.status = 200
    /\ probe.fetch.text = ListBucketResult \o AccessDenied
    /\ probe.ret = TRUE

\* C2: when the fetch fails (requests.get raises, or the status is 4xx/5xx,
\* whatever the body holds) check_bucket_access returns False, logs the
\* error, and no exception leaves it.
C2_FailureIsDenied ==
    (pc # "classify" /\ FetchFailed(probe.fetch))
        => /\ pc = "classified"
           /\ probe.ret = FALSE
           /\ verdicts = <<FALSE>>
           /\ probe.rec.level = "ERROR"
           /\ probe.rec.msg = "Error checking bucket"

\* C2 witness: a 404 whose body holds ListBucketResult was classified not
\* accessible.
C2_Witness ==
    /\ pc = "classified"
    /\ probe.fetch.kind = "response"
    /\ probe.fetch.status = 404
    /\ Contains(probe.fetch.text, ListBucketResult)
    /\ probe.ret = FALSE

\* C3: for every domain string, generate_bucket_names gives 6 names and the
\* loops give 18 URLs, the URL at index 3*a+b (from 0) being name a under
\* template b, the templates in the order S3, GCS, Azure.
C3_SixNamesEighteenTargets ==
    pc = "expanded"
        => /\ Len(bucket_names) = 6
           /\ Len(targets) = 18
           /\ \A a \in 0..5 :
                 /\ targets[3 * a + 1] = S3Prefix \o bucket_names[a + 1] \o S3Suffix
                 /\ targets[3 * a + 2] = GcsPrefix \o bucket_names[a + 1]
                 /\ targets[3 * a + 3] = AzurePrefix \o bucket_names[a + 1] \o AzureSuffix

\* C3 witness: example.com was expanded and its first URL is the S3 URL of
\* example.com-bucket.
C3_Witness ==
    /\ pc = "expanded"
    /\ domain = ExampleCom
    /\ Len(targets) = 18
    /\ targets[1] = ExampleBucketS3Url

\* C4 as stated: the names are, in order, the domain itself, {domain}-bucket,
\* bucket-{domain}, the domain with dots replaced by hyphens, {domain}-public,
\* public-{domain}.
C4_IdentityFirst ==
    pc \in {"expand", "expanded"}
        => bucket_names = << domain,
                             domain \o BucketSuffix,
                             BucketPrefix \o domain,
                             ReplaceDots(domain),
                             domain \o PublicSuffix,
                             PublicPrefix \o domain >>

\* C4 amended: the names are, in order, {domain}-bucket, bucket-{domain}, the
\* domain itself, the domain with every dot replaced by a hyphen,
\* {domain}-public, public-{domain}.
C4_SourceOrder ==
    pc \in {"expand", "expanded"}
        => /\ Len(bucket_names) = 6
           /\ bucket_names[1] = domain \o BucketSuffix
           /\ bucket_names[2] = BucketPrefix \o domain
           /\ bucket_names[3] = domain
           /\ bucket_names[4] = [k \in 1..Len(domain) |->
                                    IF domain[k] = "." THEN "-" ELSE domain[k]]
           /\ \A k \in 1..Len(domain) : bucket_names[4][k] # "."
           /\ bucket_names[5] = domain \o PublicSuffix
           /\ bucket_names[6] = PublicPrefix \o domain

\* C4 witness: the names of example.com, the first being example.com-bucket
\* and the fourth example-com.
C4_Witness ==
    /\ pc = "expand"
    /\ domain = ExampleCom
    /\ bucket_names[1] = ExampleBucketName
    /\ bucket_names[3] = ExampleCom
    /\ bucket_names[4] = ExampleHyphenated

\* C5: when is_valid_domain returns False, scan_domain logs the invalid-domain
\* error exactly once, calls requests.get not at all, builds no bucket name
\* and prints nothing.
C5_InvalidDomainAborts ==
    valid = "no"
        => /\ pc = "done"
           /\ log = <<InvalidDomainRecord(domain)>>
           /\ fetched = <<>>
           /\ inflight = 0
           /\ bucket_names = <<>>
           /\ verdicts = <<>>
           /\ accessible_buckets = <<>>
           /\ stdout = <<>>

\* C5 witness: "not a domain" was rejected.
C5_Witness ==
    /\ valid = "no"
    /\ domain = NotADomain
    /\ pc = "done"
    /\ Len(log) = 1

\* C6: after the scan of a valid domain the URLs listed are exactly the
\* fetched URLs for which check_bucket_access returned True, in fetch order,
\* and the "No publicly accessible buckets found" line is printed if and only
\* if there is none.
C6_ReportIsAccessibleSubsequence ==
    (pc = "done" /\ valid = "yes")
        => /\ ListedUrls(stdout) = Selected(fetched, verdicts)
           /\ accessible_buckets = Selected(fetched, verdicts)
           /\ NoneFoundPrinted <=> Selected(fetched, verdicts) = <<>>
           /\ Len(stdout) = IF Selected(fetched, verdicts) = <<>>
                              THEN 1 ELSE 1 + Len(Selected(fetched, verdicts))

\* C6 witness: for example.com only the first probe was accessible, and the
\* output lists exactly https://example.com-bucket.s3.amazonaws.com.
C6_Witness ==
    /\ pc = "done"
    /\ domain = ExampleCom
    /\ Len(verdicts) = 18
    /\ verdicts[1] = TRUE
    /\ \A k \in 2..18 : verdicts[k] = FALSE
    /\ ListedUrls(stdout) = <<ExampleBucketS3Url>>
    /\ ~NoneFoundPrinted

\* C7: for a valid domain the 18 URLs are each handed to requests.get once, in
\* loop order, one call at a time, whatever the earlier outcomes, and the
\* summary is printed only after the 18th call has returned.
C7_EveryTargetOnceInOrder ==
    /\ inflight \in {0, 1}
    /\ pc # "crashed"
    /\ Len(fetched) = Len(verdicts) + inflight
    /\ Len(fetched) <= 18
    /\ \A k \in 1..Len(fetched) :
          fetched[k] = ExpandAll(generate_bucket_names(domain))[k]
    /\ NoDuplicates(fetched)
    /\ (pc \in {"report", "done"} /\ valid = "yes")
          => Len(fetched) = 18 /\ Len(verdicts) = 18 /\ inflight = 0
    /\ stdout # <<>> => Len(verdicts) = 18 /\ inflight = 0 /\ pc = "done"

\* C7 witness: a finished scan in which an early probe was accessible and the
\* last fetch failed.
C7_Witness ==
    /\ pc = "done"
    /\ Len(fetched) = 18
    /\ verdicts[2] = TRUE
    /\ probe.fetch.kind = "raised"
    /\ stdout # <<>>

\* C8: a fetched response whose body matches no signature, the empty body
\* among them, is classified not accessible, and the record it hands to
\* logging differs from the record of every denial (a failed fetch, or a body
\* with AccessDenied or NoSuchBucket).
C8_InconclusiveDistinct ==
    (pc = "classified" /\ NoSignatureFetch(probe.fetch))
        => /\ probe.ret = FALSE
           /\ probe.rec.msg = "does not appear to be publicly accessible"
           /\ \A r \in ExplicitDenialRecords \cup FailedFetchRecords :
                 r.msg # probe.rec.msg

\* C8 witness: an empty body with status 200 was classified.
C8_Witness ==
    /\ pc = "classified"
    /\ probe.fetch.kind = "response"
    /\ probe.fetch.status = 200
    /\ probe.fetch.text = <<>>
    /\ probe.ret = FALSE

\* C9 as stated: the record for a response matching no signature has strictly
\* lower severity than the record for an explicit denial (a fetched body with
\* AccessDenied or NoSuchBucket).
C9_StrictlyLowerThanDenial ==
    (pc = "classified" /\ NoSignatureFetch(probe.fetch))
        => \A r \in ExplicitDenialRecords :
              Severity[probe.rec.level] < Severity[r.level]

\* C9 amended: the record for a response matching no signature has the same
\* severity, DEBUG, as the record for a fetched body with AccessDenied or
\* NoSuchBucket; it is strictly lower only than the record of a failed fetch,
\* ERROR, and than the records of the accessible verdicts, INFO.
C9_SameAsDenialBelowFailure ==
    (pc = "classified" /\ NoSignatureFetch(probe.fetch))
        => /\ probe.rec.level = "DEBUG"
           /\ ExplicitDenialRecords # {}
           /\ \A r \in ExplicitDenialRecords :
                 Severity[probe.rec.level] = Severity[r.level]
           /\ \A r \in FailedFetchRecords \cup AccessibleRecords :
                 Severity[probe.rec.level] < Severity[r.level]

\* C9 witness: a body without any signature was classified and logged at DEBUG.
C9_Witness ==
    /\ pc = "classified"
    /\ probe.fetch.kind = "response"
    /\ probe.fetch.status = 200
    /\ probe.fetch.text = <<"<">>
    /\ probe.rec.level = "DEBUG"

\* C10: for a domain the pattern of is_valid_domain accepts, the 6 bucket
\* names are pairwise distinct and the 18 URLs are pairwise distinct.
C10_DistinctNamesAndTargets ==
    (pc = "expanded" /\ re_match(domain))
        => /\ NoDuplicates(bucket_names)
           /\ NoDuplicates(targets)

\* C10 witness: an accepted domain was expanded into 18 URLs.
C10_Witness ==
    /\ pc = "expanded"
    /\ re_match(domain)
    /\ domain # ExampleCom
    /\ Len(targets) = 18

=============================================================================
